---- MODULE Spec2Model ----
(***************************************************************************)
(* Verification model of rapid_textrank's Topical PageRank variant         *)
(* (src/variants/topical_pagerank.rs), the pipeline observer               *)
(* (src/pipeline/observer.rs) and the error-code catalog                   *)
(* (src/pipeline/error_code.rs).                                           *)
(*                                                                         *)
(* The graph builder, the compressed graph, the personalization            *)
(* construction, the ranking engine, the phrase extractor and the pipeline *)
(* runner are collaborators whose code is not part of the three files;     *)
(* they are modelled from the specification (sections 4.1 to 4.5).         *)
(*                                                                         *)
(* Floating-point values (f64) are modelled as exact rationals <<n, d>>    *)
(* in lowest terms with d > 0; <<1, 0>> stands for "no residual computed". *)
(***************************************************************************)
EXTENDS Integers, Sequences, FiniteSets, TLC

VARIABLES
    mode,             \* which entry point the caller used: "extract" or "run"
    pc,               \* position inside the call
    tokens,           \* &[Token] handed to extract_with_info
    self,             \* the TopicalPageRank value: config, topic_weights, min_weight
    builder,          \* Option<GraphBuilder>
    graph,            \* Option<CsrGraph>
    personalization,  \* Option<Vec<f64>> handed to the engine
    params,           \* the engine's damping, max_iterations, threshold
    scores,           \* the engine's current score vector
    iterations,       \* the engine's iteration counter
    converged,        \* the engine's converged flag
    residual,         \* the engine's last residual
    pagerank,         \* Option<RankOutput>
    result,           \* Option<ExtractionResult>
    calls,            \* collaborators invoked so far, in call order
    hasher,           \* iteration order of the topic_weights HashMap (RandomState)
    has_transform,    \* pipeline: a graph_transform stage is configured
    has_teleport,     \* pipeline: a teleport stage is configured
    stage_idx,        \* pipeline: index of the current stage in STAGES
    stage_pc,         \* pipeline: position inside the current stage
    events,           \* callbacks received by the recording observer, in order
    reports,          \* StageTimingObserver.reports
    observed_graph,   \* pipeline: Option of the graph handed to on_graph
    code,             \* error codes: the ErrorCode value a caller holds
    text,             \* error codes: the string handed to the deserializer
    written,          \* error codes: what Display, as_str and serde have produced
    parsed,           \* error codes: Option<Result<ErrorCode, Error>> of deserializing
    ended,            \* observer: the (stage, report) pairs passed to on_stage_end
    measured,         \* observer: the durations the passed reports were built for
    returned,            \* observer: Option of what total_duration() returned
    report_builder,   \* builder: Option<StageReportBuilder> under construction
    chain,            \* builder: the duration given to new() and the setter calls made
    built             \* builder: Option<StageReport> returned by build() or new()

vars == <<mode, pc, tokens, self, builder, graph, personalization, params,
          scores, iterations, converged, residual, pagerank, result, calls,
          hasher, has_transform, has_teleport, stage_idx, stage_pc, events, reports,
          observed_graph, code, text, written, parsed, ended, measured, returned,
          report_builder, chain, built>>

extractVars == <<mode, pc, tokens, self, builder, graph, personalization, params,
                 scores, iterations, converged, residual, pagerank, result, calls,
                 hasher>>

pipelineVars == <<has_transform, has_teleport, stage_idx, stage_pc, events, reports,
                  observed_graph>>

codeVars == <<code, text, written, parsed>>

observerVars == <<ended, measured, returned>>

builderVars == <<report_builder, chain, built>>

\* The variables of the values driven directly by a caller (error codes, a
\* StageTimingObserver, a StageReportBuilder) that neither an extraction nor
\* a pipeline run touches.
harnessVars == <<codeVars, observerVars, builderVars>>

\* ------------------------------------------------------------------ bounds

\* Longest token sequence handed to extract_with_info.
MaxTokens == 3
\* Largest iteration cap (max_iterations) a configuration carries.
MaxIter == 2
\* Largest node count of a graph handed directly to the engine.
MaxNodes == 3
\* Longest stage duration, in units of 1.5 microseconds, a pipeline stage reports.
MaxDuration == 1
\* Most callbacks a caller delivers to an observer it drives directly.
MaxCalls == 3
\* Longest chain of setter calls on one StageReportBuilder.
MaxSetters == 3

\* ------------------------------------------------------------- Option<T>

None == <<>>
Some(x) == <<x>>
IsSome(o) == Len(o) = 1
Unwrap(o) == o[1]

\* ------------------------------------------------------- f64 as rationals

Abs(a) == IF a < 0 THEN -a ELSE a

RECURSIVE GCD(_, _)
GCD(a, b) == IF b = 0 THEN a ELSE GCD(b, a % b)

LCM(a, b) == (a \div GCD(a, b)) * b

\* n/d in lowest terms, d > 0.
Rat(n, d) ==
    LET g == GCD(Abs(n), d)
    IN  IF n = 0 THEN <<0, 1>> ELSE <<n \div g, d \div g>>

Zero == <<0, 1>>
One == <<1, 1>>
\* The residual before any update step has been performed.
NoResidual == <<1, 0>>

RAdd(x, y) ==
    LET l == LCM(x[2], y[2])
    IN  Rat(x[1] * (l \div x[2]) + y[1] * (l \div y[2]), l)

RNeg(x) == <<-x[1], x[2]>>

RSub(x, y) == RAdd(x, RNeg(y))

RMul(x, y) ==
    LET g1 == GCD(Abs(x[1]), y[2])
        g2 == GCD(Abs(y[1]), x[2])
    IN  IF x[1] = 0 \/ y[1] = 0 THEN Zero
        ELSE <<(x[1] \div g1) * (y[1] \div g2), (x[2] \div g2) * (y[2] \div g1)>>

\* x / y for y > 0.
RDiv(x, y) == RMul(x, <<y[2], y[1]>>)

RAbs(x) == <<Abs(x[1]), x[2]>>

RLeq(x, y) ==
    LET l == LCM(x[2], y[2])
    IN  x[1] * (l \div x[2]) <= y[1] * (l \div y[2])

RLt(x, y) == RLeq(x, y) /\ x # y

RECURSIVE RSum(_)
RSum(s) == IF s = <<>> THEN Zero ELSE RAdd(Head(s), RSum(Tail(s)))

\* -------------------------------------------------------------- the graph

\* Node key: the lemma, or (lemma, POS) when node identity is POS-sensitive.
NodeKey(t, pos_sensitive_nodes) ==
    IF pos_sensitive_nodes THEN <<t.lemma, t.pos>> ELSE <<t.lemma>>

KeyLemma(k) == k[1]

\* A token takes part in the graph when it passes the POS allow-list
\* (an absent list allows every tag) and is not flagged as a stopword.
Survives(t, include_pos) ==
    /\ ~t.is_stopword
    /\ (IsSome(include_pos) => t.pos \in Unwrap(include_pos))

RECURSIVE FirstSeen(_, _, _, _)
\* The node keys of `toks` from position i on, in first-seen order, after `acc`.
FirstSeen(toks, i, acc, cfg) ==
    IF i > Len(toks) THEN acc
    ELSE LET k == NodeKey(toks[i], cfg.pos_sensitive_nodes)
         IN  IF Survives(toks[i], cfg.include_pos) /\ (\A n \in 1..Len(acc) : acc[n] # k)
             THEN FirstSeen(toks, i + 1, Append(acc, k), cfg)
             ELSE FirstSeen(toks, i + 1, acc, cfg)

IndexOf(keys, k) == CHOOSE n \in 1..Len(keys) : keys[n] = k

\* Mutant of EdgePairs: only equal positions count as a self-pair, so two
\* occurrences of one node key inside a window form an edge candidate.
EdgePairs_by_position(toks, cfg) ==
    {p \in (1..Len(toks)) \X (1..Len(toks)) :
        /\ 1 <= p[2] - p[1]
        /\ p[2] - p[1] <= cfg.window_size
        /\ Survives(toks[p[1]], cfg.include_pos)
        /\ Survives(toks[p[2]], cfg.include_pos)
        /\ (cfg.ignore_sentence_boundaries
              \/ toks[p[1]].sentence_idx = toks[p[2]].sentence_idx)
        /\ p[1] # p[2]}

\* The position pairs (i, j) that form an edge candidate: 1 <= j - i <= W,
\* both tokens surviving the filters, in one sentence unless boundaries are
\* ignored, and not the same node.
EdgePairs(toks, cfg) ==
    {p \in (1..Len(toks)) \X (1..Len(toks)) :
        /\ 1 <= p[2] - p[1]
        /\ p[2] - p[1] <= cfg.window_size
        /\ Survives(toks[p[1]], cfg.include_pos)
        /\ Survives(toks[p[2]], cfg.include_pos)
        /\ (cfg.ignore_sentence_boundaries
              \/ toks[p[1]].sentence_idx = toks[p[2]].sentence_idx)
        /\ NodeKey(toks[p[1]], cfg.pos_sensitive_nodes)
             # NodeKey(toks[p[2]], cfg.pos_sensitive_nodes)}

\* GraphBuilder::from_tokens_with_pos_and_boundaries(tokens, window_size,
\* weighted, include_pos, use_pos_in_nodes, ignore_sentence_boundaries):
\* the key -> index map (as the key sequence) and the pair -> weight map.
from_tokens_with_pos_and_boundaries(toks, window_size, weighted, include_pos, use_pos_in_nodes, ignore_sentence_boundaries) ==
    LET cfg == [window_size |-> window_size, include_pos |-> include_pos,
                pos_sensitive_nodes |-> use_pos_in_nodes,
                ignore_sentence_boundaries |-> ignore_sentence_boundaries]
        keys == FirstSeen(toks, 1, <<>>, cfg)
        pairs == EdgePairs(toks, cfg)
        idx(i) == IndexOf(keys, NodeKey(toks[i], use_pos_in_nodes))
        count(u, v) == Cardinality({p \in pairs :
                          {idx(p[1]), idx(p[2])} = {u, v}})
    IN  [keys |-> keys,
         weight |-> [u \in 1..Len(keys) |-> [v \in 1..Len(keys) |->
                       IF weighted THEN count(u, v)
                       ELSE IF count(u, v) > 0 THEN 1 ELSE 0]]]

\* GraphBuilder::is_empty: a builder with zero nodes.
is_empty(b) == Len(b.keys) = 0

RECURSIVE Neighbors(_, _, _)
\* The neighbours of u with index >= v, in ascending index order.
Neighbors(b, u, v) ==
    IF v > Len(b.keys) THEN <<>>
    ELSE IF b.weight[u][v] > 0 THEN <<v>> \o Neighbors(b, u, v + 1)
    ELSE Neighbors(b, u, v + 1)

RECURSIVE SumInts(_)
SumInts(s) == IF s = <<>> THEN 0 ELSE Head(s) + SumInts(Tail(s))

\* CsrGraph::from_builder: per-row neighbour indices, per-row edge weights
\* and the per-node total outgoing weight.
from_builder(b) ==
    LET n == Len(b.keys)
        nbrs == [u \in 1..n |-> Neighbors(b, u, 1)]
        wts == [u \in 1..n |-> [k \in 1..Len(nbrs[u]) |-> b.weight[u][nbrs[u][k]]]]
    IN  [num_nodes |-> n,
         keys |-> b.keys,
         neighbors |-> nbrs,
         weights |-> wts,
         out_weight |-> [u \in 1..n |-> SumInts(wts[u])]]

\* ------------------------------------------------- personalization (4.4)

Uniform(n) == [i \in 1..n |-> Rat(1, n)]

\* Divide by the sum; a zero sum falls back to the uniform vector.
Normalize(raw) ==
    LET s == RSum(raw)
    IN  IF s = Zero THEN Uniform(Len(raw))
        ELSE [i \in 1..Len(raw) |-> RDiv(raw[i], s)]

\* topic_weight_personalization(topic_weights, graph, include_pos,
\* use_pos_in_nodes, min_weight): entry i is the weight of node i's lemma,
\* or min_weight when the lemma is absent from the map, then normalized.
topic_weight_personalization(topic_weights, g, include_pos, use_pos_in_nodes, min_weight) ==
    Normalize([i \in 1..g.num_nodes |->
                 IF KeyLemma(g.keys[i]) \in DOMAIN topic_weights
                 THEN topic_weights[KeyLemma(g.keys[i])]
                 ELSE min_weight])

\* ------------------------------------------------- ranking engine (4.3)

\* The teleport distribution: the normalized personalization vector when
\* one is supplied, else 1/N for every node.
Teleport(g, pers) ==
    IF IsSome(pers) THEN Normalize(Unwrap(pers)) ELSE Uniform(g.num_nodes)

\* new_score[v] = (1 - damping) * teleport[v]
\*              + damping * SUM_{u in neighbors(v)} weight(u,v) / outgoing_weight(u) * score[u]
\* A node with zero outgoing weight has no neighbours and contributes nothing.
Update(g, damping, tele, score) ==
    [v \in 1..g.num_nodes |->
        RAdd(RMul(RSub(One, damping), tele[v]),
             RMul(damping,
                  RSum([k \in 1..Len(g.neighbors[v]) |->
                          RMul(Rat(g.weights[v][k], g.out_weight[g.neighbors[v][k]]),
                               score[g.neighbors[v][k]])])))]

\* Residual: L1 norm of (new_score - score).
L1(a, b) == RSum([i \in 1..Len(a) |-> RAbs(RSub(a[i], b[i]))])

\* The residual meets the threshold; no residual exists before the first update.
MeetsThreshold(r, threshold) == r # NoResidual /\ RLeq(r, threshold)

\* The engine's state when the loop is entered: the scores start at the
\* teleport distribution.
EngineStart(g, pers) ==
    [scores |-> Teleport(g, pers), iterations |-> 0, converged |-> FALSE,
     residual |-> NoResidual]

\* One pass of the loop: the update is performed, then convergence is tested.
EngineStep(g, p, tele, st) ==
    LET new == Update(g, p.damping, tele, st.scores)
        r == L1(new, st.scores)
    IN  [scores |-> new, iterations |-> st.iterations + 1,
         converged |-> MeetsThreshold(r, p.threshold), residual |-> r]

\* The loop ends on convergence or when max_iterations is exhausted.
EngineDone(p, st) == st.converged \/ st.iterations >= p.max_iterations

\* RankOutput of a zero-node graph: the update loop is not invoked.
EmptyRankOutput ==
    [scores |-> <<>>, converged |-> TRUE, iterations |-> 0, residual |-> Zero]

RECURSIVE Iterate(_, _, _, _)
Iterate(g, p, tele, st) ==
    IF EngineDone(p, st) THEN st ELSE Iterate(g, p, tele, EngineStep(g, p, tele, st))

\* run(graph, damping, max_iterations, threshold, personalization?) -> RankOutput
run(g, p, pers) ==
    IF g.num_nodes = 0 THEN EmptyRankOutput
    ELSE Iterate(g, p, Teleport(g, pers), EngineStart(g, pers))

\* ------------------------------------------------------ phrase assembly

\* PhraseExtractor::extract(tokens, graph, pagerank): one phrase per node,
\* carrying the node's lemma and its score.
PhraseExtractor_extract(toks, g, rank) ==
    [i \in 1..g.num_nodes |-> [lemma |-> KeyLemma(g.keys[i]), score |-> rank.scores[i]]]

\* --------------------------------------------------- TopicalPageRank

PosTags == {"Noun", "Verb"}

\* The words a document is written with: lemma, POS tag, stopword flag.
Vocabulary ==
    {[lemma |-> "a", pos |-> "Noun", is_stopword |-> FALSE],
     [lemma |-> "b", pos |-> "Noun", is_stopword |-> FALSE],
     [lemma |-> "b", pos |-> "Verb", is_stopword |-> FALSE],
     [lemma |-> "c", pos |-> "Verb", is_stopword |-> TRUE]}

\* Token sequences of length l in at most two sentences: the tokens after
\* position brk lie in sentence 1, the others in sentence 0.
DocsOfLen(l) ==
    {[i \in 1..l |-> [lemma |-> ws[i].lemma, pos |-> ws[i].pos,
                      is_stopword |-> ws[i].is_stopword,
                      sentence_idx |-> IF i > brk THEN 1 ELSE 0]] :
        ws \in [1..l -> Vocabulary], brk \in 1..(IF l = 0 THEN 1 ELSE l)}

Docs == UNION {DocsOfLen(l) : l \in 0..MaxTokens}

\* TextRankConfig::default()
TextRankConfig_default ==
    [window_size |-> 2, damping |-> <<1, 2>>, max_iterations |-> MaxIter,
     convergence_threshold |-> <<1, 100>>, include_pos |-> {},
     use_pos_in_nodes |-> FALSE]

\* The configurations a caller passes to with_config: the default, and the
\* default with one field changed (valid and invalid values alike).
Configs ==
    {TextRankConfig_default}
    \cup {[TextRankConfig_default EXCEPT !.window_size = w] : w \in {0, 1}}
    \cup {[TextRankConfig_default EXCEPT !.damping = d] : d \in {<<3, 4>>, <<3, 2>>}}
    \cup {[TextRankConfig_default EXCEPT !.max_iterations = m] : m \in 0..MaxIter}
    \cup {[TextRankConfig_default EXCEPT !.convergence_threshold = t] : t \in {<<1, 2>>, Zero}}
    \cup {[TextRankConfig_default EXCEPT !.include_pos = {"Noun"}]}
    \cup {[TextRankConfig_default EXCEPT !.use_pos_in_nodes = TRUE]}

\* The topic-weight maps (lemma -> weight) a caller passes to with_topic_weights.
TopicWeightMaps ==
    {<<>>,
     [l \in {"a"} |-> <<10, 1>>],
     [l \in {"a", "b"} |-> IF l = "a" THEN <<4, 5>> ELSE <<3, 5>>]}

MinWeights == {Zero, One}

\* The orders in which iterating a HashMap can yield its keys: std's
\* RandomState seeds every map differently, so any permutation can occur.
IterationOrders(m) ==
    {o \in [1..Cardinality(DOMAIN m) -> DOMAIN m] :
        \A i, j \in 1..Cardinality(DOMAIN m) : i # j => o[i] # o[j]}

\* TopicalPageRank::new
new == [config |-> TextRankConfig_default, topic_weights |-> <<>>, min_weight |-> Zero]

\* TopicalPageRank::with_config
with_config(config) == [config |-> config, topic_weights |-> <<>>, min_weight |-> Zero]

\* TopicalPageRank::with_topic_weights
with_topic_weights(tpr, weights) == [tpr EXCEPT !.topic_weights = weights]

\* TopicalPageRank::with_min_weight
with_min_weight(tpr, min_weight) == [tpr EXCEPT !.min_weight = min_weight]

\* extract_with_info, lines 73-77: an empty include_pos means "no filter".
IncludePosArg(config) ==
    IF config.include_pos = {} THEN None ELSE Some(config.include_pos)

\* extract_with_info, lines 80-87: the builder call and its fixed arguments.
BuildGraph(tpr, toks) ==
    from_tokens_with_pos_and_boundaries(toks, tpr.config.window_size, TRUE,
        IncludePosArg(tpr.config), tpr.config.use_pos_in_nodes, FALSE)

\* Mutant of EmptyResult: the empty case reports non-convergence.
EmptyResult_unconverged == [phrases |-> <<>>, converged |-> FALSE, iterations |-> 0]

\* extract_with_info, lines 89-95: the result of an empty builder.
EmptyResult == [phrases |-> <<>>, converged |-> TRUE, iterations |-> 0]

\* Mutant of BuildPersonalization: the out-of-vocabulary weight is hard-coded
\* to 0.0 instead of being taken from self.min_weight.
BuildPersonalization_fixed_min(tpr, g) ==
    topic_weight_personalization(tpr.topic_weights, g, tpr.config.include_pos,
        tpr.config.use_pos_in_nodes, Zero)

\* Mutant of BuildPersonalization: the topic weights are not handed over,
\* every node is treated as out of vocabulary.
BuildPersonalization_no_topics(tpr, g) ==
    topic_weight_personalization(<<>>, g, tpr.config.include_pos,
        tpr.config.use_pos_in_nodes, tpr.min_weight)

\* extract_with_info, lines 100-106: the personalization call.
BuildPersonalization(tpr, g) ==
    topic_weight_personalization(tpr.topic_weights, g, tpr.config.include_pos,
        tpr.config.use_pos_in_nodes, tpr.min_weight)

\* Mutant of RankParams: the iteration cap handed to the engine is off by one.
RankParams_cap_off_by_one(config) ==
    [damping |-> config.damping, max_iterations |-> config.max_iterations + 1,
     threshold |-> config.convergence_threshold]

\* Mutant of RankParams: with_damping is forgotten, the engine keeps its default.
RankParams_default_damping(config) ==
    [damping |-> <<1, 2>>, max_iterations |-> config.max_iterations,
     threshold |-> config.convergence_threshold]

\* extract_with_info, lines 109-112: the engine's settings come from the config.
RankParams(config) ==
    [damping |-> config.damping, max_iterations |-> config.max_iterations,
     threshold |-> config.convergence_threshold]

\* Mutant of MakeResult: the result always claims convergence.
MakeResult_always_converged(phrases, rank) ==
    [phrases |-> phrases, converged |-> TRUE, iterations |-> rank.iterations]

\* extract_with_info, lines 119-123: the flags are those of the RankOutput.
MakeResult(phrases, rank) ==
    [phrases |-> phrases, converged |-> rank.converged, iterations |-> rank.iterations]

\* ------------------------------------------------ direct engine calls

Pairs(n) == {p \in (1..n) \X (1..n) : p[1] < p[2]}

\* Builder snapshots with n nodes and symmetric edge weights 0, 1 or 2.
BuildersOfSize(n) ==
    {[keys |-> [i \in 1..n |-> <<ToString(i)>>],
      weight |-> [u \in 1..n |-> [v \in 1..n |->
                    IF u = v THEN 0
                    ELSE IF u < v THEN w[<<u, v>>] ELSE w[<<v, u>>]]]] :
        w \in [Pairs(n) -> {0, 1, 2}]}

\* Personalization vectors handed to the engine: none, one biased towards
\* node 1, and the all-zero vector.
RunPersonalizations(n) ==
    {None,
     Some([i \in 1..n |-> IF i = 1 THEN <<3, 1>> ELSE <<1, 1>>]),
     Some([i \in 1..n |-> Zero])}

RunParams ==
    [damping : {<<1, 2>>, <<3, 4>>}, max_iterations : 0..MaxIter,
     threshold : {<<1, 100>>, <<1, 2>>}]

\* ------------------------------------------------------------- actions

EngineState ==
    [scores |-> scores, iterations |-> iterations, converged |-> converged,
     residual |-> residual]

IdleEngine ==
    /\ scores = <<>>
    /\ iterations = 0
    /\ converged = FALSE
    /\ residual = NoResidual
    /\ pagerank = None
    /\ result = None
    /\ calls = <<>>

IdlePipeline ==
    /\ has_transform = FALSE
    /\ has_teleport = FALSE
    /\ stage_idx = 0
    /\ stage_pc = "idle"
    /\ events = <<>>
    /\ reports = <<>>
    /\ observed_graph = None

\* A caller holds a TopicalPageRank value and a token sequence.
InitExtract ==
    /\ mode = "extract"
    /\ pc = "extract"
    /\ tokens \in Docs
    /\ self \in {with_min_weight(with_topic_weights(with_config(c), tw), mw) :
                    c \in Configs, tw \in TopicWeightMaps, mw \in MinWeights}
    /\ hasher \in IterationOrders(self.topic_weights)
    /\ builder = None
    /\ graph = None
    /\ personalization = None
    /\ params = RankParams(TextRankConfig_default)
    /\ IdleEngine

\* A caller holds a compiled graph and calls the engine directly.
InitRun ==
    /\ mode = "run"
    /\ pc = "personalized"
    /\ tokens = <<>>
    /\ self = new
    /\ hasher = <<>>
    /\ \E n \in 0..MaxNodes :
         \E b \in BuildersOfSize(n) :
           /\ builder = Some(b)
           /\ graph = Some(from_builder(b))
           /\ personalization \in RunPersonalizations(n)
    /\ params \in RunParams
    /\ IdleEngine

\* No error code is being formatted or parsed.
IdleCodes ==
    /\ code = <<>>
    /\ text = <<>>
    /\ written = <<>>
    /\ parsed = None

\* No observer is being driven directly.
IdleObserver ==
    /\ ended = <<>>
    /\ measured = <<>>
    /\ returned = None

\* No report is being built.
IdleBuilder ==
    /\ report_builder = None
    /\ chain = <<>>
    /\ built = None

IdleHarness == IdleCodes /\ IdleObserver /\ IdleBuilder

Init == (InitExtract \/ InitRun) /\ IdlePipeline /\ IdleHarness

\* lines 73-87
Build ==
    /\ pc = "extract"
    /\ builder' = Some(BuildGraph(self, tokens))
    /\ calls' = Append(calls, "from_tokens")
    /\ pc' = "built"
    /\ UNCHANGED <<hasher, mode, tokens, self, graph, personalization, params, scores,
                   iterations, converged, residual, pagerank, result>>
    /\ UNCHANGED <<pipelineVars, harnessVars>>

\* lines 89-95
ReturnEmpty ==
    /\ pc = "built"
    /\ is_empty(Unwrap(builder))
    /\ result' = Some(EmptyResult)
    /\ pc' = "done"
    /\ UNCHANGED <<hasher, mode, tokens, self, builder, graph, personalization, params,
                   scores, iterations, converged, residual, pagerank, calls>>
    /\ UNCHANGED <<pipelineVars, harnessVars>>

\* line 97
Compile ==
    /\ pc = "built"
    /\ ~is_empty(Unwrap(builder))
    /\ graph' = Some(from_builder(Unwrap(builder)))
    /\ calls' = Append(calls, "from_builder")
    /\ pc' = "compiled"
    /\ UNCHANGED <<hasher, mode, tokens, self, builder, personalization, params, scores,
                   iterations, converged, residual, pagerank, result>>
    /\ UNCHANGED <<pipelineVars, harnessVars>>

\* Mutant of Personalize: the vector is filled by iterating the topic_weights
\* map, so entry i takes the weight of the i-th key the map yields.
Personalize_by_iteration ==
    /\ pc = "compiled"
    /\ personalization' = Some(Normalize(
            [i \in 1..Unwrap(graph).num_nodes |->
                IF i <= Len(hasher) THEN self.topic_weights[hasher[i]]
                ELSE self.min_weight]))
    /\ calls' = Append(calls, "topic_weight_personalization")
    /\ pc' = "personalized"
    /\ UNCHANGED <<hasher, mode, tokens, self, builder, graph, params, scores,
                   iterations, converged, residual, pagerank, result>>
    /\ UNCHANGED <<pipelineVars, harnessVars>>

\* lines 99-106
Personalize ==
    /\ pc = "compiled"
    /\ personalization' = Some(BuildPersonalization(self, Unwrap(graph)))
    /\ calls' = Append(calls, "topic_weight_personalization")
    /\ pc' = "personalized"
    /\ UNCHANGED <<hasher, mode, tokens, self, builder, graph, params, scores,
                   iterations, converged, residual, pagerank, result>>
    /\ UNCHANGED <<pipelineVars, harnessVars>>

\* lines 108-114: the engine is configured and run() is entered.
RankStart ==
    /\ pc = "personalized"
    /\ params' = IF mode = "extract" THEN RankParams(self.config) ELSE params
    /\ calls' = Append(calls, "run")
    /\ IF Unwrap(graph).num_nodes = 0
       THEN /\ pagerank' = Some(EmptyRankOutput)
            /\ pc' = "done"
            /\ UNCHANGED <<scores, iterations, converged, residual>>
       ELSE LET st == EngineStart(Unwrap(graph), personalization)
            IN  /\ scores' = st.scores
                /\ iterations' = st.iterations
                /\ converged' = st.converged
                /\ residual' = st.residual
                /\ pc' = "iterating"
                /\ UNCHANGED pagerank
    /\ UNCHANGED <<hasher, mode, tokens, self, builder, graph, personalization, result>>
    /\ UNCHANGED <<pipelineVars, harnessVars>>

\* Mutant of RankStep: the engine normalizes the rows of the graph in place,
\* overwriting the per-node total outgoing weights while it iterates.
RankStep_rescales_graph ==
    /\ pc = "iterating"
    /\ ~EngineDone(params, EngineState)
    /\ LET st == EngineStep(Unwrap(graph), params,
                            Teleport(Unwrap(graph), personalization), EngineState)
       IN  /\ scores' = st.scores
           /\ iterations' = st.iterations
           /\ converged' = st.converged
           /\ residual' = st.residual
    /\ graph' = Some([Unwrap(graph) EXCEPT !.out_weight =
                        [u \in 1..Unwrap(graph).num_nodes |-> 1]])
    /\ UNCHANGED <<hasher, mode, pc, tokens, self, builder, personalization,
                   params, pagerank, result, calls>>
    /\ UNCHANGED <<pipelineVars, harnessVars>>

\* One update step of the power iteration.
RankStep ==
    /\ pc = "iterating"
    /\ ~EngineDone(params, EngineState)
    /\ LET st == EngineStep(Unwrap(graph), params,
                            Teleport(Unwrap(graph), personalization), EngineState)
       IN  /\ scores' = st.scores
           /\ iterations' = st.iterations
           /\ converged' = st.converged
           /\ residual' = st.residual
    /\ UNCHANGED <<hasher, mode, pc, tokens, self, builder, graph, personalization,
                   params, pagerank, result, calls>>
    /\ UNCHANGED <<pipelineVars, harnessVars>>

\* run() returns its RankOutput.
RankFinish ==
    /\ pc = "iterating"
    /\ EngineDone(params, EngineState)
    /\ pagerank' = Some(EngineState)
    /\ pc' = IF mode = "extract" THEN "ranked" ELSE "done"
    /\ UNCHANGED <<hasher, mode, tokens, self, builder, graph, personalization, params,
                   scores, iterations, converged, residual, result, calls>>
    /\ UNCHANGED <<pipelineVars, harnessVars>>

\* The caller of the engine runs it once more on the same compiled graph:
\* a personalized run after a plain one, or a plain run after a personalized one.
Rerun ==
    /\ mode = "run"
    /\ pc = "done"
    /\ calls = <<"run">>
    /\ personalization' \in {p \in RunPersonalizations(Unwrap(graph).num_nodes) :
                                (p = None) # (personalization = None)}
    /\ scores' = <<>>
    /\ iterations' = 0
    /\ converged' = FALSE
    /\ residual' = NoResidual
    /\ pagerank' = None
    /\ pc' = "personalized"
    /\ UNCHANGED <<hasher, mode, tokens, self, builder, graph, params, result, calls>>
    /\ UNCHANGED <<pipelineVars, harnessVars>>

\* lines 116-123
ExtractPhrases ==
    /\ pc = "ranked"
    /\ result' = Some(MakeResult(
                    PhraseExtractor_extract(tokens, Unwrap(graph), Unwrap(pagerank)),
                    Unwrap(pagerank)))
    /\ calls' = Append(calls, "PhraseExtractor::extract")
    /\ pc' = "done"
    /\ UNCHANGED <<hasher, mode, tokens, self, builder, graph, personalization, params,
                   scores, iterations, converged, residual, pagerank>>
    /\ UNCHANGED <<pipelineVars, harnessVars>>

Next ==
    \/ Build
    \/ ReturnEmpty
    \/ Compile
    \/ Personalize
    \/ RankStart
    \/ RankStep
    \/ RankFinish
    \/ Rerun
    \/ ExtractPhrases

Spec == Init /\ [][Next]_vars

\* ------------------------------------------------- observer (observer.rs)

STAGE_PREPROCESS == "preprocess"
STAGE_CANDIDATES == "candidates"
STAGE_GRAPH == "graph"
\* Mutant of STAGE_GRAPH_TRANSFORM: the name is a copy of the teleport stage's.
STAGE_GRAPH_TRANSFORM_copied == "teleport"
STAGE_GRAPH_TRANSFORM == "graph_transform"
STAGE_TELEPORT == "teleport"
STAGE_RANK == "rank"
STAGE_PHRASES == "phrases"
STAGE_FORMAT == "format"

\* Mutant of STAGES: the two optional stages run in the opposite order.
STAGES_optional_swapped ==
    <<"preprocess", "candidates", "graph", "teleport", "graph_transform",
      "rank", "phrases", "format">>

\* The stages in pipeline order.
STAGES ==
    <<STAGE_PREPROCESS, STAGE_CANDIDATES, STAGE_GRAPH, STAGE_GRAPH_TRANSFORM,
      STAGE_TELEPORT, STAGE_RANK, STAGE_PHRASES, STAGE_FORMAT>>

\* Machine integers wider than the checker's own are kept at their width as
\* little-endian sequences of 16-bit digits: u64 has 4 digits, u128 has 8.
U64_BITS == 64
U128_BITS == 128
DigitBits == 16
DigitBase == 2 ^ DigitBits

\* The n-bit integer with the small value v (0 <= v < 2^31).
UIntOf(v, bits) ==
    [i \in 1..(bits \div DigitBits) |->
        IF i = 1 THEN v % DigitBase ELSE IF i = 2 THEN v \div DigitBase ELSE 0]

U64Of(v) == UIntOf(v, U64_BITS)

\* u64::MAX
U64_MAX == [i \in 1..(U64_BITS \div DigitBits) |-> DigitBase - 1]

\* `x as u128` for a u64 x: zero extension.
Widen(x) == [i \in 1..(U128_BITS \div DigitBits) |-> IF i <= Len(x) THEN x[i] ELSE 0]

\* `x as u64` for a u128 x: the low 64 bits are kept.
Truncate(x) == [i \in 1..(U64_BITS \div DigitBits) |-> x[i]]

\* The value of x is below 2^64.
FitsU64(x) == \A i \in 1..Len(x) : i > U64_BITS \div DigitBits => x[i] = 0

RECURSIVE AddFrom(_, _, _, _)
\* Digits i.. of a + b + carry, followed by the carry out of the top digit.
AddFrom(a, b, i, carry) ==
    IF i > Len(a) THEN <<carry>>
    ELSE <<(a[i] + b[i] + carry) % DigitBase>>
         \o AddFrom(a, b, i + 1, (a[i] + b[i] + carry) \div DigitBase)

\* a + b at the width of a: the wrapped sum and whether it overflowed.
AddWidth(a, b) ==
    LET r == AddFrom(a, b, 1, 0)
    IN  [value |-> SubSeq(r, 1, Len(a)), overflow |-> r[Len(a) + 1] # 0]

RECURSIVE MulFrom(_, _, _, _)
MulFrom(a, k, i, carry) ==
    IF i > Len(a) THEN <<>>
    ELSE <<(a[i] * k + carry) % DigitBase>>
         \o MulFrom(a, k, i + 1, (a[i] * k + carry) \div DigitBase)

\* a * k at the width of a, for a small factor k (k <= 1000).
MulSmall(a, k) == MulFrom(a, k, 1, 0)

RECURSIVE DivFrom(_, _, _, _)
\* Long division of digits 1..i of a, with `rem` carried in from above.
DivFrom(a, k, i, rem) ==
    IF i = 0 THEN [q |-> <<>>, r |-> rem]
    ELSE LET cur == rem * DigitBase + a[i]
             rest == DivFrom(a, k, i - 1, cur % k)
         IN  [q |-> Append(rest.q, cur \div k), r |-> rest.r]

\* a / k and a % k for a small divisor k (k <= 1000).
DivSmall(a, k) == DivFrom(a, k, Len(a), 0)

\* std::time::Duration: whole seconds (u64) and nanoseconds below 10^9.
Duration_new(secs, nanos) == [secs |-> secs, nanos |-> nanos]

\* Duration::from_nanos, for a small number of nanoseconds.
Duration_from_nanos(n) == Duration_new(U64Of(n \div 1000000000), n % 1000000000)

\* Duration::from_micros(micros: u64):
\* secs = micros / 1_000_000, nanos = (micros % 1_000_000) * 1_000.
Duration_from_micros(micros) ==
    LET d1 == DivSmall(micros, 1000)
        d2 == DivSmall(d1.q, 1000)
    IN  Duration_new(d2.q, (d2.r * 1000 + d1.r) * 1000)

\* Duration::as_micros (u128): secs * 1_000_000 + nanos / 1_000.
as_micros(duration) ==
    AddWidth(MulSmall(MulSmall(Widen(duration.secs), 1000), 1000),
             UIntOf(duration.nanos \div 1000, U128_BITS)).value

\* StageReport::new: only the duration is populated
\* (duration_us: duration.as_micros() as u64).
StageReport_new(duration) ==
    [duration_us |-> Truncate(as_micros(duration)), nodes |-> None, edges |-> None,
     iterations |-> None, converged |-> None, residual |-> None]

\* StageReport::duration_us
StageReport_duration_us(report) == report.duration_us

\* StageReport::duration
StageReport_duration(report) == Duration_from_micros(StageReport_duration_us(report))

\* Mutant of StageReportBuilder_edges: the value is stored in the nodes field.
StageReportBuilder_edges_into_nodes(b, n) == [b EXCEPT !.report.nodes = Some(n)]

\* StageReportBuilder: new, the chained setters and build.
StageReportBuilder_new(duration) == [report |-> StageReport_new(duration)]
StageReportBuilder_nodes(b, n) == [b EXCEPT !.report.nodes = Some(n)]
StageReportBuilder_edges(b, n) == [b EXCEPT !.report.edges = Some(n)]
StageReportBuilder_iterations(b, n) == [b EXCEPT !.report.iterations = Some(n)]
StageReportBuilder_converged(b, c) == [b EXCEPT !.report.converged = Some(c)]
StageReportBuilder_residual(b, r) == [b EXCEPT !.report.residual = Some(r)]
StageReportBuilder_build(b) == b.report

\* An artifact callback carries no stage name.
NoStage == ""

\* A recording observer: every PipelineObserver callback is appended to a log.
on_stage_start(log, stage) == Append(log, [cb |-> "on_stage_start", stage |-> stage])
on_stage_end(log, stage, report) == Append(log, [cb |-> "on_stage_end", stage |-> stage])
on_artifact(log, cb) == Append(log, [cb |-> cb, stage |-> NoStage])

\* Mutant of StageTimingObserver_on_stage_end: one entry per stage name, a
\* later report of a stage replaces the earlier one.
StageTimingObserver_on_stage_end_keyed(rs, stage, report) ==
    IF \E i \in 1..Len(rs) : rs[i][1] = stage
    THEN [i \in 1..Len(rs) |-> IF rs[i][1] = stage THEN <<stage, report>> ELSE rs[i]]
    ELSE Append(rs, <<stage, report>>)

\* StageTimingObserver::on_stage_end: push (stage, report.clone()).
StageTimingObserver_on_stage_end(rs, stage, report) == Append(rs, <<stage, report>>)

\* -------------------------------------------------- pipeline runner (4.5)

\* Durations a stage clock measures: multiples of 1.5 microseconds.
Durations == {Duration_from_nanos(k * 1500) : k \in 0..MaxDuration}

\* GraphTransform and Teleport are optional; every other stage always runs.
StagePresent(stage) ==
    /\ (stage = STAGE_GRAPH_TRANSFORM => has_transform)
    /\ (stage = STAGE_TELEPORT => has_teleport)

\* Mutant of ArtifactAfter: the graph is delivered as soon as the graph stage
\* has finished, whether or not a transform follows.
ArtifactAfter_graph_stage(stage) ==
    IF stage = STAGE_PREPROCESS THEN Some("on_tokens")
    ELSE IF stage = STAGE_CANDIDATES THEN Some("on_candidates")
    ELSE IF stage = STAGE_GRAPH THEN Some("on_graph")
    ELSE IF stage = STAGE_RANK THEN Some("on_rank")
    ELSE IF stage = STAGE_PHRASES THEN Some("on_phrases")
    ELSE None

\* The artifact callback invoked once `stage` has finished: the graph is
\* delivered after the graph stage, or after graph_transform when that runs.
ArtifactAfter(stage) ==
    IF stage = STAGE_PREPROCESS THEN Some("on_tokens")
    ELSE IF stage = STAGE_CANDIDATES THEN Some("on_candidates")
    ELSE IF stage = STAGE_GRAPH /\ ~has_transform THEN Some("on_graph")
    ELSE IF stage = STAGE_GRAPH_TRANSFORM THEN Some("on_graph")
    ELSE IF stage = STAGE_RANK THEN Some("on_rank")
    ELSE IF stage = STAGE_PHRASES THEN Some("on_phrases")
    ELSE None

\* The metrics record of a finished stage: the duration, plus node and edge
\* counts for the graph stage and the convergence figures for the rank stage.
StageReportOf(stage, duration) ==
    IF stage = STAGE_GRAPH
    THEN StageReportBuilder_build(StageReportBuilder_edges(
            StageReportBuilder_nodes(StageReportBuilder_new(duration), 2), 1))
    ELSE IF stage = STAGE_RANK
    THEN StageReportBuilder_build(StageReportBuilder_residual(
            StageReportBuilder_converged(StageReportBuilder_iterations(
                StageReportBuilder_new(duration), 1), TRUE), Zero))
    ELSE StageReport_new(duration)

\* The builder snapshots the graph stage of a pipeline run ends with.
PipelineBuilders ==
    BuildersOfSize(2)
    \cup {b \in BuildersOfSize(3) :
            b.weight[1][2] = 1 /\ b.weight[2][3] = 2 /\ b.weight[1][3] = 0}

RECURSIVE KeptEdges(_, _, _, _)
\* The positions k.. of row u whose edge weight is at least min_weight.
KeptEdges(g, u, k, min_weight) ==
    IF k > Len(g.neighbors[u]) THEN <<>>
    ELSE (IF g.weights[u][k] >= min_weight THEN <<k>> ELSE <<>>)
         \o KeptEdges(g, u, k + 1, min_weight)

\* A graph transform: the edges of weight 1 are pruned. The result is a new
\* compiled graph over the same nodes, in the same order.
graph_transform(g) ==
    LET kept == [u \in 1..g.num_nodes |-> KeptEdges(g, u, 1, 2)]
        wts == [u \in 1..g.num_nodes |->
                  [k \in 1..Len(kept[u]) |-> g.weights[u][kept[u][k]]]]
    IN  [num_nodes |-> g.num_nodes,
         keys |-> g.keys,
         neighbors |-> [u \in 1..g.num_nodes |->
                          [k \in 1..Len(kept[u]) |-> g.neighbors[u][kept[u][k]]]],
         weights |-> wts,
         out_weight |-> [u \in 1..g.num_nodes |-> SumInts(wts[u])]]

PipelineDone == stage_idx > Len(STAGES)

InitPipeline ==
    /\ mode = "pipeline"
    /\ pc = "idle"
    /\ tokens = <<>>
    /\ self = new
    /\ hasher = <<>>
    /\ builder = None
    /\ graph = None
    /\ personalization = None
    /\ params = RankParams(TextRankConfig_default)
    /\ IdleEngine
    /\ has_transform \in BOOLEAN
    /\ has_teleport \in BOOLEAN
    /\ stage_idx = 1
    /\ stage_pc = "pending"
    /\ events = <<>>
    /\ reports = <<>>
    /\ observed_graph = None
    /\ IdleHarness

\* "stage starting" is notified before the stage executes.
StageStart ==
    /\ ~PipelineDone
    /\ stage_pc = "pending"
    /\ StagePresent(STAGES[stage_idx])
    /\ events' = on_stage_start(events, STAGES[stage_idx])
    /\ stage_pc' = "running"
    /\ UNCHANGED <<has_transform, has_teleport, stage_idx, reports, observed_graph>>
    /\ UNCHANGED <<extractVars, harnessVars>>

\* An absent optional stage is passed over without any notification.
StageSkip ==
    /\ ~PipelineDone
    /\ stage_pc = "pending"
    /\ ~StagePresent(STAGES[stage_idx])
    /\ stage_idx' = stage_idx + 1
    /\ UNCHANGED <<has_transform, has_teleport, stage_pc, events, reports, observed_graph>>
    /\ UNCHANGED <<extractVars, harnessVars>>

\* The stage has executed: "stage finished" is notified with its metrics.
StageEnd ==
    /\ ~PipelineDone
    /\ stage_pc = "running"
    /\ \E d \in Durations :
         LET report == StageReportOf(STAGES[stage_idx], d)
         IN  /\ events' = on_stage_end(events, STAGES[stage_idx], report)
             /\ reports' = StageTimingObserver_on_stage_end(reports, STAGES[stage_idx], report)
    /\ IF STAGES[stage_idx] = STAGE_GRAPH
       THEN \E b \in PipelineBuilders :
              /\ builder' = Some(b)
              /\ graph' = Some(from_builder(b))
       ELSE IF STAGES[stage_idx] = STAGE_GRAPH_TRANSFORM
       THEN /\ graph' = Some(graph_transform(Unwrap(graph)))
            /\ UNCHANGED builder
       ELSE UNCHANGED <<builder, graph>>
    /\ stage_pc' = "ended"
    /\ UNCHANGED <<has_transform, has_teleport, stage_idx, observed_graph>>
    /\ UNCHANGED <<mode, pc, tokens, self, personalization, params, scores,
                   iterations, converged, residual, pagerank, result, calls, hasher>>
    /\ UNCHANGED harnessVars

\* The stage's artifact, if it yields one, is shown to the observer; the
\* runner then moves on to the next stage.
StageArtifact ==
    /\ ~PipelineDone
    /\ stage_pc = "ended"
    /\ events' = IF IsSome(ArtifactAfter(STAGES[stage_idx]))
                 THEN on_artifact(events, Unwrap(ArtifactAfter(STAGES[stage_idx])))
                 ELSE events
    /\ observed_graph' = IF ArtifactAfter(STAGES[stage_idx]) = Some("on_graph")
                         THEN graph
                         ELSE observed_graph
    /\ stage_idx' = stage_idx + 1
    /\ stage_pc' = "pending"
    /\ UNCHANGED <<has_transform, has_teleport, reports>>
    /\ UNCHANGED <<extractVars, harnessVars>>

NextPipeline ==
    \/ StageStart
    \/ StageSkip
    \/ StageEnd
    \/ StageArtifact

SpecPipeline == InitPipeline /\ [][NextPipeline]_vars

\* ------------------------------------------- error codes (error_code.rs)

\* An identifier is the sequence of its capitalized words; a string is the
\* sequence of its lowercase words and separators.
MissingStage == <<"Missing", "Stage">>
InvalidCombo == <<"Invalid", "Combo">>
ModuleUnavailable == <<"Module", "Unavailable">>
LimitExceeded == <<"Limit", "Exceeded">>
UnknownField == <<"Unknown", "Field">>
InvalidValue == <<"Invalid", "Value">>
IncompatibleModules == <<"Incompatible", "Modules">>
ValidationFailed == <<"Validation", "Failed">>
StageFailed == <<"Stage", "Failed">>
ConvergenceFailed == <<"Convergence", "Failed">>

\* enum ErrorCode
ErrorCode ==
    {MissingStage, InvalidCombo, ModuleUnavailable, LimitExceeded, UnknownField,
     InvalidValue, IncompatibleModules, ValidationFailed, StageFailed,
     ConvergenceFailed}

\* Mutant of as_str: one arm of the match carries a different spelling.
as_str_misspelled(c) ==
    CASE c = MissingStage -> <<"missing", "_", "stage">>
      [] c = InvalidCombo -> <<"invalid", "_", "combo">>
      [] c = ModuleUnavailable -> <<"module", "_", "unavailable">>
      [] c = LimitExceeded -> <<"limit", "_", "exceeded">>
      [] c = UnknownField -> <<"unknown", "_", "field">>
      [] c = InvalidValue -> <<"invalid", "_", "value">>
      [] c = IncompatibleModules -> <<"incompatible", "_", "modules">>
      [] c = ValidationFailed -> <<"validation", "_", "failed">>
      [] c = StageFailed -> <<"stage", "_", "failed">>
      [] c = ConvergenceFailed -> <<"convergence", "_", "failure">>

\* ErrorCode::as_str
as_str(c) ==
    CASE c = MissingStage -> <<"missing", "_", "stage">>
      [] c = InvalidCombo -> <<"invalid", "_", "combo">>
      [] c = ModuleUnavailable -> <<"module", "_", "unavailable">>
      [] c = LimitExceeded -> <<"limit", "_", "exceeded">>
      [] c = UnknownField -> <<"unknown", "_", "field">>
      [] c = InvalidValue -> <<"invalid", "_", "value">>
      [] c = IncompatibleModules -> <<"incompatible", "_", "modules">>
      [] c = ValidationFailed -> <<"validation", "_", "failed">>
      [] c = StageFailed -> <<"stage", "_", "failed">>
      [] c = ConvergenceFailed -> <<"convergence", "_", "failed">>

\* impl Display for ErrorCode: fmt writes as_str().
Display_fmt(c) == as_str(c)

\* char::to_ascii_lowercase, applied to a capitalized word.
to_ascii_lowercase(w) ==
    CASE w = "Missing" -> "missing"
      [] w = "Stage" -> "stage"
      [] w = "Invalid" -> "invalid"
      [] w = "Combo" -> "combo"
      [] w = "Module" -> "module"
      [] w = "Unavailable" -> "unavailable"
      [] w = "Limit" -> "limit"
      [] w = "Exceeded" -> "exceeded"
      [] w = "Unknown" -> "unknown"
      [] w = "Field" -> "field"
      [] w = "Value" -> "value"
      [] w = "Incompatible" -> "incompatible"
      [] w = "Modules" -> "modules"
      [] w = "Validation" -> "validation"
      [] w = "Failed" -> "failed"
      [] w = "Convergence" -> "convergence"

RECURSIVE snake_case(_, _)
\* #[serde(rename_all = "snake_case")]: from word i on, every upper-case
\* letter but the first of the identifier is preceded by "_" and lowered.
snake_case(ident, i) ==
    IF i > Len(ident) THEN <<>>
    ELSE (IF i > 1 THEN <<"_">> ELSE <<>>)
         \o <<to_ascii_lowercase(ident[i])>> \o snake_case(ident, i + 1)

\* #[derive(Serialize)]: a unit variant is written as its renamed name.
serialize(c) == snake_case(c, 1)

Ok(c) == <<"Ok", c>>
Err == <<"Err">>

\* #[derive(Deserialize)]: the string is matched against the renamed variant
\* names; any other string is an "unknown variant" error.
deserialize(s) ==
    IF \E c \in ErrorCode : snake_case(c, 1) = s
    THEN Ok(CHOOSE c \in ErrorCode : snake_case(c, 1) = s)
    ELSE Err

\* Strings a deserializer is handed: the ten codes, and strings that are the
\* code of no variant (among them "nonexistent_code", a variant name in
\* PascalCase words and the empty string).
CodeStrings ==
    {as_str(c) : c \in ErrorCode}
    \cup {<<"nonexistent", "_", "code">>, <<"Missing", "Stage">>,
          <<"missing", "stage">>, <<"stage">>, <<>>}

NothingWritten == [display |-> None, as_str |-> None, json |-> None]

\* No extraction is in progress.
IdleExtraction ==
    /\ pc = "idle"
    /\ tokens = <<>>
    /\ self = new
    /\ hasher = <<>>
    /\ builder = None
    /\ graph = None
    /\ personalization = None
    /\ params = RankParams(TextRankConfig_default)
    /\ IdleEngine

\* A caller holds an ErrorCode and a string to deserialize.
InitCodes ==
    /\ mode = "codes"
    /\ IdleExtraction
    /\ IdlePipeline
    /\ code \in ErrorCode
    /\ text \in CodeStrings
    /\ written = NothingWritten
    /\ parsed = None
    /\ IdleObserver
    /\ IdleBuilder

\* code.to_string()
Format ==
    /\ written.display = None
    /\ written' = [written EXCEPT !.display = Some(Display_fmt(code))]
    /\ UNCHANGED <<code, text, parsed>>
    /\ UNCHANGED <<extractVars, pipelineVars, observerVars, builderVars>>

\* code.as_str()
CallAsStr ==
    /\ written.as_str = None
    /\ written' = [written EXCEPT !.as_str = Some(as_str(code))]
    /\ UNCHANGED <<code, text, parsed>>
    /\ UNCHANGED <<extractVars, pipelineVars, observerVars, builderVars>>

\* serde_json::to_string(&code), without the surrounding quotes
Serialize ==
    /\ written.json = None
    /\ written' = [written EXCEPT !.json = Some(serialize(code))]
    /\ UNCHANGED <<code, text, parsed>>
    /\ UNCHANGED <<extractVars, pipelineVars, observerVars, builderVars>>

\* The serialized code is what the deserializer is handed next.
SendBack ==
    /\ IsSome(written.json)
    /\ parsed = None
    /\ text # Unwrap(written.json)
    /\ text' = Unwrap(written.json)
    /\ UNCHANGED <<code, written, parsed>>
    /\ UNCHANGED <<extractVars, pipelineVars, observerVars, builderVars>>

\* serde_json::from_str::<ErrorCode>(text)
Deserialize ==
    /\ parsed = None
    /\ parsed' = Some(deserialize(text))
    /\ UNCHANGED <<code, text, written>>
    /\ UNCHANGED <<extractVars, pipelineVars, observerVars, builderVars>>

NextCodes ==
    \/ Format
    \/ CallAsStr
    \/ Serialize
    \/ SendBack
    \/ Deserialize

SpecCodes == InitCodes /\ [][NextCodes]_vars

\* --------------------------------- StageTimingObserver driven directly

\* The PipelineObserver methods StageTimingObserver does not override keep
\* the trait's empty default body: the observer is left as it is.
StageTimingObserver_on_stage_start(rs, stage) == rs
StageTimingObserver_on_artifact(rs, cb) == rs

\* The artifact callbacks of PipelineObserver.
ArtifactCallbacks == {"on_tokens", "on_candidates", "on_graph", "on_rank", "on_phrases"}

\* The stage names a caller passes to the observer.
ObservedStages == {STAGE_GRAPH, STAGE_RANK}

\* Durations a caller reports: those of the pipeline's clock, 2^63
\* microseconds, u64::MAX microseconds, and Duration::MAX.
ObservedDurations ==
    Durations
    \cup {Duration_from_micros([i \in 1..(U64_BITS \div DigitBits) |->
                                 IF i = U64_BITS \div DigitBits THEN DigitBase \div 2 ELSE 0]),
          Duration_from_micros(U64_MAX),
          Duration_new(U64_MAX, 999999999)}

\* The outcome of a call that panicked.
Panic == [panic |-> "attempt to add with overflow"]

RECURSIVE SumU64(_, _)
\* Iterator::sum over the duration_us of reports i..: the wrapped u64 sum
\* and whether an addition overflowed.
SumU64(rs, i) ==
    IF i > Len(rs) THEN [value |-> U64Of(0), overflow |-> FALSE]
    ELSE LET rest == SumU64(rs, i + 1)
             s == AddWidth(StageReport_duration_us(rs[i][2]), rest.value)
         IN  [value |-> s.value, overflow |-> s.overflow \/ rest.overflow]

\* StageTimingObserver::total_duration: the outcomes a build can produce.
\* An overflowing u64 sum panics with overflow checks on (debug builds) and
\* wraps with them off (release builds).
total_duration(rs) ==
    IF SumU64(rs, 1).overflow
    THEN {Panic, Duration_from_micros(SumU64(rs, 1).value)}
    ELSE {Duration_from_micros(SumU64(rs, 1).value)}

\* A caller holds a fresh StageTimingObserver::new().
InitObserver ==
    /\ mode = "observer"
    /\ IdleExtraction
    /\ IdlePipeline
    /\ IdleCodes
    /\ IdleBuilder
    /\ IdleObserver

\* observer.on_stage_start(stage)
CallStageStart ==
    /\ returned = None
    /\ Len(events) < MaxCalls
    /\ \E stage \in ObservedStages :
         /\ reports' = StageTimingObserver_on_stage_start(reports, stage)
         /\ events' = on_stage_start(events, stage)
    /\ UNCHANGED <<has_transform, has_teleport, stage_idx, stage_pc, observed_graph>>
    /\ UNCHANGED <<ended, measured, returned>>
    /\ UNCHANGED <<extractVars, codeVars, builderVars>>

\* observer.on_stage_end(stage, &report), the report built for a measured duration
CallStageEnd ==
    /\ returned = None
    /\ Len(events) < MaxCalls
    /\ \E stage \in ObservedStages : \E d \in ObservedDurations :
         LET report == StageReportOf(stage, d)
         IN  /\ reports' = StageTimingObserver_on_stage_end(reports, stage, report)
             /\ events' = on_stage_end(events, stage, report)
             /\ ended' = Append(ended, <<stage, report>>)
             /\ measured' = Append(measured, d)
    /\ UNCHANGED <<has_transform, has_teleport, stage_idx, stage_pc, observed_graph>>
    /\ UNCHANGED returned
    /\ UNCHANGED <<extractVars, codeVars, builderVars>>

\* observer.on_tokens(..), on_candidates(..), on_graph(..), on_rank(..), on_phrases(..)
CallArtifact ==
    /\ returned = None
    /\ Len(events) < MaxCalls
    /\ \E cb \in ArtifactCallbacks :
         /\ reports' = StageTimingObserver_on_artifact(reports, cb)
         /\ events' = on_artifact(events, cb)
    /\ UNCHANGED <<has_transform, has_teleport, stage_idx, stage_pc, observed_graph>>
    /\ UNCHANGED <<ended, measured, returned>>
    /\ UNCHANGED <<extractVars, codeVars, builderVars>>

\* observer.total_duration()
CallTotalDuration ==
    /\ mode = "observer"
    /\ returned = None
    /\ \E outcome \in total_duration(reports) : returned' = Some(outcome)
    /\ UNCHANGED <<ended, measured>>
    /\ UNCHANGED <<extractVars, pipelineVars, codeVars, builderVars>>

NextObserver ==
    \/ CallStageStart
    \/ CallStageEnd
    \/ CallArtifact
    \/ CallTotalDuration

SpecObserver == InitObserver /\ [][NextObserver]_vars

\* ----------------------------------- StageReportBuilder driven directly

\* Values a caller hands to the setters.
NodeCounts == {0, 7}
EdgeCounts == {0, 12}
IterationCounts == {1, 42}
Residuals == {Zero, <<1, 1000>>}

\* Durations a caller hands to StageReportBuilder::new and StageReport::new.
BuilderDurations == Durations \cup {Duration_from_micros(U64_MAX)}

\* StageReportBuilder::new(duration)
StartBuilder ==
    /\ mode = "builder"
    /\ report_builder = None
    /\ built = None
    /\ \E d \in BuilderDurations :
         /\ report_builder' = Some(StageReportBuilder_new(d))
         /\ chain' = [duration |-> d, calls |-> <<>>]
    /\ UNCHANGED built
    /\ UNCHANGED <<extractVars, pipelineVars, codeVars, observerVars>>

\* StageReport::new(duration), without a builder
NewReport ==
    /\ mode = "builder"
    /\ report_builder = None
    /\ built = None
    /\ \E d \in BuilderDurations :
         /\ built' = Some(StageReport_new(d))
         /\ chain' = [duration |-> d, calls |-> <<>>]
    /\ UNCHANGED report_builder
    /\ UNCHANGED <<extractVars, pipelineVars, codeVars, observerVars>>

\* builder.nodes(n)
SetNodes ==
    /\ IsSome(report_builder)
    /\ Len(chain.calls) < MaxSetters
    /\ \E n \in NodeCounts :
         /\ report_builder' = Some(StageReportBuilder_nodes(Unwrap(report_builder), n))
         /\ chain' = [chain EXCEPT !.calls = Append(@, <<"nodes", n>>)]
    /\ UNCHANGED built
    /\ UNCHANGED <<extractVars, pipelineVars, codeVars, observerVars>>

\* builder.edges(n)
SetEdges ==
    /\ IsSome(report_builder)
    /\ Len(chain.calls) < MaxSetters
    /\ \E n \in EdgeCounts :
         /\ report_builder' = Some(StageReportBuilder_edges(Unwrap(report_builder), n))
         /\ chain' = [chain EXCEPT !.calls = Append(@, <<"edges", n>>)]
    /\ UNCHANGED built
    /\ UNCHANGED <<extractVars, pipelineVars, codeVars, observerVars>>

\* builder.iterations(n)
SetIterations ==
    /\ IsSome(report_builder)
    /\ Len(chain.calls) < MaxSetters
    /\ \E n \in IterationCounts :
         /\ report_builder' = Some(StageReportBuilder_iterations(Unwrap(report_builder), n))
         /\ chain' = [chain EXCEPT !.calls = Append(@, <<"iterations", n>>)]
    /\ UNCHANGED built
    /\ UNCHANGED <<extractVars, pipelineVars, codeVars, observerVars>>

\* builder.converged(c)
SetConverged ==
    /\ IsSome(report_builder)
    /\ Len(chain.calls) < MaxSetters
    /\ \E c \in BOOLEAN :
         /\ report_builder' = Some(StageReportBuilder_converged(Unwrap(report_builder), c))
         /\ chain' = [chain EXCEPT !.calls = Append(@, <<"converged", c>>)]
    /\ UNCHANGED built
    /\ UNCHANGED <<extractVars, pipelineVars, codeVars, observerVars>>

\* builder.residual(r)
SetResidual ==
    /\ IsSome(report_builder)
    /\ Len(chain.calls) < MaxSetters
    /\ \E r \in Residuals :
         /\ report_builder' = Some(StageReportBuilder_residual(Unwrap(report_builder), r))
         /\ chain' = [chain EXCEPT !.calls = Append(@, <<"residual", r>>)]
    /\ UNCHANGED built
    /\ UNCHANGED <<extractVars, pipelineVars, codeVars, observerVars>>

\* builder.build(): the builder is consumed
Build_report ==
    /\ IsSome(report_builder)
    /\ built' = Some(StageReportBuilder_build(Unwrap(report_builder)))
    /\ report_builder' = None
    /\ UNCHANGED chain
    /\ UNCHANGED <<extractVars, pipelineVars, codeVars, observerVars>>

\* A caller is about to create a report.
InitBuilder ==
    /\ mode = "builder"
    /\ IdleExtraction
    /\ IdlePipeline
    /\ IdleCodes
    /\ IdleObserver
    /\ IdleBuilder

NextBuilder ==
    \/ StartBuilder
    \/ NewReport
    \/ SetNodes
    \/ SetEdges
    \/ SetIterations
    \/ SetConverged
    \/ SetResidual
    \/ Build_report

SpecBuilder == InitBuilder /\ [][NextBuilder]_vars

\* =====================================================================
\* Properties
\* =====================================================================

\* What the caller of the ranking run asked for: the configuration of the
\* TopicalPageRank value, or the settings handed to the engine directly.
Requested ==
    IF mode = "extract"
    THEN [damping |-> self.config.damping,
          max_iterations |-> self.config.max_iterations,
          threshold |-> self.config.convergence_threshold]
    ELSE params

\* Some token of the input survives the builder's filters.
SomeTokenSurvives ==
    \E i \in 1..Len(tokens) : Survives(tokens[i], IncludePosArg(self.config))

\* C1: every returned RankOutput has iterations <= max_iterations; converged
\* implies that the final residual is at most the threshold; not converged
\* implies iterations = max_iterations.
C1_RankOutputContract ==
    IsSome(pagerank) =>
        LET r == Unwrap(pagerank)
        IN  /\ r.iterations <= Requested.max_iterations
            /\ (r.converged => r.residual # NoResidual
                               /\ RLeq(r.residual, Requested.threshold))
            /\ (~r.converged => r.iterations = Requested.max_iterations)

\* C1 witness: a run that exhausted a positive iteration cap without converging.
C1_Witness ==
    /\ IsSome(pagerank)
    /\ ~Unwrap(pagerank).converged
    /\ Unwrap(pagerank).iterations > 0

\* C2: when no token survives the filters (the empty sequence included),
\* extract_with_info returns no phrases, converged = true and iterations = 0,
\* and only the builder was invoked: the graph is not compiled, no
\* personalization is built and the solver does not run.
C2_EmptyShortCircuit ==
    (mode = "extract" /\ ~SomeTokenSurvives) =>
        /\ pc \in {"extract", "built", "done"}
        /\ graph = None
        /\ personalization = None
        /\ pagerank = None
        /\ iterations = 0
        /\ \A i \in 1..Len(calls) : calls[i] = "from_tokens"
        /\ (pc = "done" =>
              /\ result = Some([phrases |-> <<>>, converged |-> TRUE, iterations |-> 0])
              /\ calls = <<"from_tokens">>)

\* C2 witness: a non-empty sequence whose tokens are all filtered out has
\* been answered.
C2_Witness ==
    /\ mode = "extract"
    /\ pc = "done"
    /\ Len(tokens) > 0
    /\ ~SomeTokenSurvives
    /\ IsSome(result)

\* C3: for a non-empty input the ExtractionResult carries exactly the
\* converged flag and the iteration count of the RankOutput, and its phrases
\* are those built from the RankOutput's scores, converged or not.
C3_NonConvergenceReported ==
    (mode = "extract" /\ pc = "done" /\ SomeTokenSurvives) =>
        /\ IsSome(pagerank)
        /\ IsSome(result)
        /\ Unwrap(result).converged = Unwrap(pagerank).converged
        /\ Unwrap(result).iterations = Unwrap(pagerank).iterations
        /\ Len(Unwrap(result).phrases) = Unwrap(graph).num_nodes
        /\ Len(Unwrap(result).phrases) > 0
        /\ \A i \in 1..Len(Unwrap(result).phrases) :
              Unwrap(result).phrases[i].score = Unwrap(pagerank).scores[i]

\* C3 witness: an extraction that ended without convergence and with phrases.
C3_Witness ==
    /\ mode = "extract"
    /\ pc = "done"
    /\ IsSome(pagerank)
    /\ ~Unwrap(pagerank).converged
    /\ ~Unwrap(result).converged
    /\ Len(Unwrap(result).phrases) > 0

\* A configuration within the documented ranges: positive window size,
\* damping in (0,1), positive iteration cap, positive threshold.
ValidConfig(config) ==
    /\ config.window_size >= 1
    /\ RLt(Zero, config.damping)
    /\ RLt(config.damping, One)
    /\ config.max_iterations >= 1
    /\ RLt(Zero, config.convergence_threshold)

\* C4: with an invalid configuration no graph construction or ranking work
\* is done: the builder and the solver are never invoked and no result other
\* than a rejection is produced.
C4_InvalidConfigRejected ==
    (mode = "extract" /\ ~ValidConfig(self.config)) =>
        /\ calls = <<>>
        /\ builder = None
        /\ pagerank = None
        /\ result = None

\* The fixed stage order.
StageOrder ==
    <<"preprocess", "candidates", "graph", "graph_transform", "teleport",
      "rank", "phrases", "format">>

StagePos(s) == CHOOSE k \in 1..Len(StageOrder) : StageOrder[k] = s

IsArtifact(e) == e.cb \notin {"on_stage_start", "on_stage_end"}

\* The stages after whose on_stage_end an artifact callback is delivered: the
\* graph is produced by the graph stage, or by graph_transform when it runs.
Producers(cb) ==
    IF cb = "on_tokens" THEN {"preprocess"}
    ELSE IF cb = "on_candidates" THEN {"candidates"}
    ELSE IF cb = "on_graph" THEN {"graph", "graph_transform"}
    ELSE IF cb = "on_rank" THEN {"rank"}
    ELSE IF cb = "on_phrases" THEN {"phrases"}
    ELSE {}

\* C5: the observer sees the stages in the fixed order; every
\* on_stage_start(name) is directly followed by on_stage_end(name) and every
\* on_stage_end(name) directly preceded by on_stage_start(name); an artifact
\* callback directly follows the on_stage_end of its producing stage, and a
\* producing stage's on_stage_end is followed by its artifact callback before
\* any later on_stage_start (for the graph stage: unless graph_transform
\* starts, which then delivers the graph).
C5_StageOrderAndBracketing ==
    LET n == Len(events)
        names == {StageOrder[k] : k \in 1..Len(StageOrder)}
    IN  /\ \A i \in 1..n : ~IsArtifact(events[i]) => events[i].stage \in names
        /\ \A i, j \in 1..n :
              (i < j /\ events[i].cb = events[j].cb /\ ~IsArtifact(events[i])
                 /\ events[i].stage \in names /\ events[j].stage \in names)
              => StagePos(events[i].stage) < StagePos(events[j].stage)
        /\ \A i \in 1..n :
              events[i].cb = "on_stage_start" =>
                 (i < n => events[i + 1] = [cb |-> "on_stage_end",
                                            stage |-> events[i].stage])
        /\ \A i \in 1..n :
              events[i].cb = "on_stage_end" =>
                 /\ i > 1
                 /\ events[i - 1] = [cb |-> "on_stage_start", stage |-> events[i].stage]
        /\ \A i \in 1..n :
              IsArtifact(events[i]) =>
                 /\ i > 1
                 /\ events[i - 1].cb = "on_stage_end"
                 /\ events[i - 1].stage \in Producers(events[i].cb)
        /\ \A i \in 1..(n - 1) :
              events[i].cb = "on_stage_end" =>
                 IF events[i].stage \in {"preprocess", "candidates", "graph_transform",
                                         "rank", "phrases"}
                 THEN IsArtifact(events[i + 1])
                 ELSE IF events[i].stage = "graph"
                 THEN \/ events[i + 1].cb = "on_graph"
                      \/ events[i + 1] = [cb |-> "on_stage_start",
                                          stage |-> "graph_transform"]
                 ELSE events[i + 1].cb = "on_stage_start"

\* C5 witness: a pipeline with both optional stages has run to its end.
C5_Witness ==
    /\ PipelineDone
    /\ has_transform
    /\ has_teleport
    /\ Len(events) = 21
    /\ events[Len(events)] = [cb |-> "on_stage_end", stage |-> "format"]

CountEvents(cb, stage) ==
    Cardinality({i \in 1..Len(events) : events[i].cb = cb /\ events[i].stage = stage})

\* C6: an absent optional stage is never named in a callback; every other
\* stage still gets exactly one start and one end and every artifact is
\* delivered exactly once, and with both optional stages absent the observer
\* sees exactly the remaining notifications in the fixed order.
C6_SkippedStageIsSilent ==
    /\ ~has_transform => \A i \in 1..Len(events) : events[i].stage # "graph_transform"
    /\ ~has_teleport => \A i \in 1..Len(events) : events[i].stage # "teleport"
    /\ PipelineDone =>
          /\ \A s \in {"preprocess", "candidates", "graph", "rank", "phrases", "format"} :
                /\ CountEvents("on_stage_start", s) = 1
                /\ CountEvents("on_stage_end", s) = 1
          /\ \A cb \in {"on_tokens", "on_candidates", "on_graph", "on_rank", "on_phrases"} :
                CountEvents(cb, NoStage) = 1
          /\ CountEvents("on_stage_start", "graph_transform") = (IF has_transform THEN 1 ELSE 0)
          /\ CountEvents("on_stage_start", "teleport") = (IF has_teleport THEN 1 ELSE 0)
    /\ (PipelineDone /\ ~has_transform /\ ~has_teleport) =>
          events = << [cb |-> "on_stage_start", stage |-> "preprocess"],
                      [cb |-> "on_stage_end", stage |-> "preprocess"],
                      [cb |-> "on_tokens", stage |-> ""],
                      [cb |-> "on_stage_start", stage |-> "candidates"],
                      [cb |-> "on_stage_end", stage |-> "candidates"],
                      [cb |-> "on_candidates", stage |-> ""],
                      [cb |-> "on_stage_start", stage |-> "graph"],
                      [cb |-> "on_stage_end", stage |-> "graph"],
                      [cb |-> "on_graph", stage |-> ""],
                      [cb |-> "on_stage_start", stage |-> "rank"],
                      [cb |-> "on_stage_end", stage |-> "rank"],
                      [cb |-> "on_rank", stage |-> ""],
                      [cb |-> "on_stage_start", stage |-> "phrases"],
                      [cb |-> "on_stage_end", stage |-> "phrases"],
                      [cb |-> "on_phrases", stage |-> ""],
                      [cb |-> "on_stage_start", stage |-> "format"],
                      [cb |-> "on_stage_end", stage |-> "format"] >>

\* C6 witness: a pipeline without graph_transform, with teleport, has run to
\* its end.
C6_Witness ==
    /\ PipelineDone
    /\ ~has_transform
    /\ has_teleport
    /\ CountEvents("on_stage_end", "teleport") = 1

\* The engine holds a score vector of a non-empty graph.
EngineHoldsScores ==
    /\ pc \in {"iterating", "ranked", "done"}
    /\ IsSome(graph)
    /\ Unwrap(graph).num_nodes > 0
    /\ Len(scores) = Unwrap(graph).num_nodes

\* C7: on a non-empty graph, with damping in (0,1), the score vector held
\* by the engine after each update step and returned in the RankOutput sums to
\* 1 and every entry lies in [0,1].
C7_ScoresAreDistribution ==
    (EngineHoldsScores /\ RLt(Zero, params.damping) /\ RLt(params.damping, One)) =>
        /\ RSum(scores) = One
        /\ \A i \in 1..Len(scores) : RLeq(Zero, scores[i]) /\ RLeq(scores[i], One)

\* The raw (not yet normalized) teleport entries: the mapped weight of each
\* node's lemma, or min_weight for a lemma absent from the map.
RawTopicWeights ==
    [i \in 1..Unwrap(graph).num_nodes |->
        IF KeyLemma(Unwrap(graph).keys[i]) \in DOMAIN self.topic_weights
        THEN self.topic_weights[KeyLemma(Unwrap(graph).keys[i])]
        ELSE self.min_weight]

C9_UniformEqualsPlain ==
    (mode = "extract" /\ DOMAIN self.topic_weights = {} /\ self.min_weight = One) =>
        /\ IsSome(personalization) =>
              \A i \in 1..Unwrap(graph).num_nodes :
                 Unwrap(personalization)[i] = <<1, Unwrap(graph).num_nodes>>
        /\ IsSome(pagerank) =>
              Unwrap(pagerank) = run(Unwrap(graph), Requested, None)

\* C9 witness: such a run on a graph of at least two nodes that took at
\* least one update step has returned.
C9_Witness ==
    /\ mode = "extract"
    /\ DOMAIN self.topic_weights = {}
    /\ self.min_weight = One
    /\ IsSome(pagerank)
    /\ Unwrap(graph).num_nodes >= 2
    /\ Unwrap(pagerank).iterations >= 1

\* The initial vector already satisfies the threshold: one update would
\* move it by no more than the threshold.
InitialSatisfiesThreshold ==
    LET init == Teleport(Unwrap(graph), personalization)
    IN  RLeq(L1(Update(Unwrap(graph), Requested.damping, init, init), init),
             Requested.threshold)

\* C10: with max_iterations = 0 on a non-empty graph the RankOutput reports
\* iterations = 0 and carries the initial distribution (1/N, or the normalized
\* personalization vector) unchanged, and converged is false unless the
\* initial vector already satisfies the threshold.
C10_ZeroIterations ==
    (Requested.max_iterations = 0 /\ IsSome(pagerank) /\ Unwrap(graph).num_nodes > 0) =>
        LET r == Unwrap(pagerank)
            n == Unwrap(graph).num_nodes
        IN  /\ r.iterations = 0
            /\ iterations = 0
            /\ r.scores = IF IsSome(personalization)
                          THEN Normalize(Unwrap(personalization))
                          ELSE [i \in 1..n |-> <<1, n>>]
            /\ (~InitialSatisfiesThreshold => ~r.converged)

\* C10 witness: a run with max_iterations = 0 on a graph of at least two
\* nodes has returned.
C10_Witness ==
    /\ Requested.max_iterations = 0
    /\ IsSome(pagerank)
    /\ Unwrap(graph).num_nodes >= 2
    /\ ~Unwrap(pagerank).converged

\* What one extraction yields: the node indices assigned by the builder (the
\* key sequence in index order), the RankOutput and the ExtractionResult.
Outcome == [keys |-> Unwrap(builder).keys, pagerank |-> pagerank, result |-> result]

\* extract_with_info as a function of the TopicalPageRank value and the
\* token sequence alone.
Extraction(tpr, toks) ==
    LET b == BuildGraph(tpr, toks)
        g == from_builder(b)
        rank == run(g, RankParams(tpr.config), Some(BuildPersonalization(tpr, g)))
    IN  IF is_empty(b)
        THEN [keys |-> b.keys, pagerank |-> None, result |-> Some(EmptyResult)]
        ELSE [keys |-> b.keys, pagerank |-> Some(rank),
              result |-> Some(MakeResult(PhraseExtractor_extract(toks, g, rank), rank))]

SurvivingKeys ==
    {NodeKey(tokens[i], self.config.use_pos_in_nodes) :
        i \in {j \in 1..Len(tokens) : Survives(tokens[j], IncludePosArg(self.config))}}

\* C12: the graph the builder has accumulated from a token sequence is simple
\* and undirected: no node is joined to itself, weight(u,v) = weight(v,u) for
\* every pair of nodes, and there is exactly one node per distinct node key
\* that survives the POS/stopword filters.
C12_SimpleUndirected ==
    (mode = "extract" /\ IsSome(builder)) =>
        LET b == Unwrap(builder)
            n == Len(b.keys)
        IN  /\ \A u \in 1..n : b.weight[u][u] = 0
            /\ \A u, v \in 1..n : b.weight[u][v] = b.weight[v][u]
            /\ n = Cardinality(SurvivingKeys)
            /\ {b.keys[u] : u \in 1..n} = SurvivingKeys

\* A scanned sequence in which one node key occurs at two positions of one
\* window (same sentence), next to a second node it shares an edge with.
C12_Witness ==
    /\ mode = "extract"
    /\ IsSome(builder)
    /\ \E i, j \in 1..Len(tokens) :
         /\ 1 <= j - i
         /\ j - i <= self.config.window_size
         /\ Survives(tokens[i], IncludePosArg(self.config))
         /\ Survives(tokens[j], IncludePosArg(self.config))
         /\ tokens[i].sentence_idx = tokens[j].sentence_idx
         /\ NodeKey(tokens[i], self.config.use_pos_in_nodes)
              = NodeKey(tokens[j], self.config.use_pos_in_nodes)
    /\ Len(Unwrap(builder).keys) = 2
    /\ Unwrap(builder).weight[1][2] = 2

\* C13: a compiled graph is never mutated after compilation. No step of
\* personalization construction, of a ranking run or of phrase extraction
\* changes its node count, node order, neighbour lists, edge weights or total
\* outgoing weights; and every RankOutput returned for a graph that is shared
\* by a plain and a personalized run in sequence is the RankOutput of the same
\* run on a graph freshly compiled from the builder snapshot.
C13_CompiledGraphReadOnly ==
    [][/\ (IsSome(graph) => graph' = graph)
       /\ ((mode = "run" /\ pagerank = None /\ IsSome(pagerank')) =>
              Unwrap(pagerank') =
                  run(from_builder(Unwrap(builder')), params', personalization'))]_vars

\* A personalized run has finished on a graph with an edge that an earlier
\* plain run has already used.
C13_Witness ==
    /\ mode = "run"
    /\ pc = "done"
    /\ calls = <<"run", "run">>
    /\ IsSome(personalization)
    /\ IsSome(pagerank)
    /\ Unwrap(pagerank).iterations >= 1
    /\ \E u \in 1..Unwrap(graph).num_nodes : Unwrap(graph).out_weight[u] > 0

\* The nodes biased by the topic weights: the node's lemma carries a positive
\* topic weight, min_weight is 0.0 and every other node is out of vocabulary.
BiasedNodes ==
    {u \in 1..Unwrap(graph).num_nodes :
        /\ self.min_weight = Zero
        /\ KeyLemma(Unwrap(graph).keys[u]) \in DOMAIN self.topic_weights
        /\ RLt(Zero, self.topic_weights[KeyLemma(Unwrap(graph).keys[u])])
        /\ \A v \in 1..Unwrap(graph).num_nodes :
             v # u => KeyLemma(Unwrap(graph).keys[v]) \notin DOMAIN self.topic_weights}

\* The uniform (non-personalized) run on the same graph with the same
\* damping, threshold and max_iterations.
UniformRun == run(Unwrap(graph), params, None)

\* A personalized extraction has been ranked.
PersonalizedRanked == mode = "extract" /\ IsSome(pagerank)

BothAtFixedPoint ==
    /\ Unwrap(graph).num_nodes >= 2
    /\ RLt(Zero, params.damping)
    /\ RLt(params.damping, One)
    /\ Unwrap(pagerank).residual = Zero
    /\ UniformRun.residual = Zero

C15_ErrorCodeStrings ==
    mode = "codes" =>
        /\ \A f, g \in {"display", "as_str", "json"} :
             (IsSome(written[f]) /\ IsSome(written[g])) => written[f] = written[g]
        /\ \A f \in {"display", "as_str", "json"} : \A c \in ErrorCode \ {code} :
             IsSome(written[f]) =>
                /\ Unwrap(written[f]) # Display_fmt(c)
                /\ Unwrap(written[f]) # as_str(c)
                /\ Unwrap(written[f]) # serialize(c)
        /\ (IsSome(parsed) /\ written.json = Some(text)) => Unwrap(parsed) = Ok(code)
        /\ (IsSome(parsed) /\ (\A c \in ErrorCode : as_str(c) # text)) => Unwrap(parsed) = Err

\* The three strings of ConvergenceFailed have been produced and the
\* serialized one has been deserialized back.
C15_Witness ==
    /\ mode = "codes"
    /\ code = ConvergenceFailed
    /\ IsSome(written.display)
    /\ IsSome(written.as_str)
    /\ written.json = Some(text)
    /\ parsed = Some(Ok(ConvergenceFailed))

\* "nonexistent_code" has been handed to the deserializer and rejected.
C15_WitnessRejected ==
    /\ mode = "codes"
    /\ text = <<"nonexistent", "_", "code">>
    /\ parsed = Some(Err)

RECURSIVE EndedStages(_)
\* The stage names of the on_stage_end callbacks of a callback log, in order.
EndedStages(log) ==
    IF log = <<>> THEN <<>>
    ELSE (IF Head(log).cb = "on_stage_end" THEN <<Head(log).stage>> ELSE <<>>)
         \o EndedStages(Tail(log))

\* C16: after any sequence of callbacks on a StageTimingObserver, reports()
\* is exactly the sequence of (stage, report) pairs passed to on_stage_end,
\* in call order with one entry per call; on_stage_start and the artifact
\* callbacks add, drop and reorder nothing.
C16_ReportsAreStageEnds ==
    mode = "observer" =>
        /\ reports = ended
        /\ [i \in 1..Len(reports) |-> reports[i][1]] = EndedStages(events)

\* One stage has ended twice, around a start and before an artifact callback.
C16_Witness ==
    /\ mode = "observer"
    /\ Len(events) = 3
    /\ events[1].cb = "on_stage_end"
    /\ events[2].cb = "on_stage_end"
    /\ events[3].cb = "on_graph"
    /\ Len(reports) = 2
    /\ reports[1][1] = reports[2][1]
    /\ reports[1][2] # reports[2][2]

\* The position pairs of two surviving tokens with different node keys that
\* lie within window_size positions of each other, in any sentences.
CoOccurrences ==
    {p \in (1..Len(tokens)) \X (1..Len(tokens)) :
        /\ 1 <= p[2] - p[1]
        /\ p[2] - p[1] <= self.config.window_size
        /\ Survives(tokens[p[1]], IncludePosArg(self.config))
        /\ Survives(tokens[p[2]], IncludePosArg(self.config))
        /\ NodeKey(tokens[p[1]], self.config.use_pos_in_nodes)
             # NodeKey(tokens[p[2]], self.config.use_pos_in_nodes)}

\* The node index the builder gave to the token at position i.
NodeOf(i) ==
    IndexOf(Unwrap(builder).keys, NodeKey(tokens[i], self.config.use_pos_in_nodes))

EventsOf(cb, stage) ==
    {k \in 1..Len(events) : events[k].cb = cb /\ events[k].stage = stage}

\* C18: in a pipeline run with a graph_transform stage, on_graph comes after
\* graph_transform's on_stage_end and before the on_stage_start of teleport
\* and of rank, which do not start without it; the graph it hands over is the
\* graph as the transform left it, and that graph has the node count and the
\* node order of the graph the graph stage produced.
C18_GraphAfterTransform ==
    (mode = "pipeline" /\ has_transform) =>
        /\ \A k \in EventsOf("on_graph", NoStage) :
             /\ \E e \in EventsOf("on_stage_end", STAGE_GRAPH_TRANSFORM) : e < k
             /\ \A s \in EventsOf("on_stage_start", STAGE_TELEPORT)
                         \cup EventsOf("on_stage_start", STAGE_RANK) : k < s
             /\ observed_graph = Some(graph_transform(from_builder(Unwrap(builder))))
             /\ Unwrap(observed_graph).num_nodes = from_builder(Unwrap(builder)).num_nodes
             /\ Unwrap(observed_graph).keys = from_builder(Unwrap(builder)).keys
        /\ (EventsOf("on_stage_start", STAGE_TELEPORT)
              \cup EventsOf("on_stage_start", STAGE_RANK) # {})
             => Cardinality(EventsOf("on_graph", NoStage)) = 1
        /\ (EventsOf("on_graph", NoStage) = {}) => observed_graph = None

\* A run whose transform pruned an edge has handed the graph to on_graph and
\* has started the rank stage.
C18_Witness ==
    /\ mode = "pipeline"
    /\ has_transform
    /\ EventsOf("on_graph", NoStage) # {}
    /\ EventsOf("on_stage_start", STAGE_RANK) # {}
    /\ IsSome(observed_graph)
    /\ Unwrap(observed_graph) # from_builder(Unwrap(builder))
    /\ \E u \in 1..Unwrap(observed_graph).num_nodes : Unwrap(observed_graph).out_weight[u] > 0

\* The value of the last call of setter `field` in a chain of setter calls,
\* None when the chain has no such call.
LastSet(setters, field) ==
    LET at == {i \in 1..Len(setters) : setters[i][1] = field}
    IN  IF at = {} THEN None
        ELSE Some(setters[CHOOSE i \in at : \A j \in at : j <= i][2])

\* The report a chain of calls stands for: the duration given to new(), the
\* last value set for every field that was set, None for every other field.
ReportOfChain ==
    [duration_us |-> Truncate(as_micros(chain.duration)),
     nodes |-> LastSet(chain.calls, "nodes"),
     edges |-> LastSet(chain.calls, "edges"),
     iterations |-> LastSet(chain.calls, "iterations"),
     converged |-> LastSet(chain.calls, "converged"),
     residual |-> LastSet(chain.calls, "residual")]

\* C19: each StageReportBuilder setter changes only its own field. During a
\* chain of setters and after build(), the report carries the duration given
\* to new(), the last value set for each field that was set and None for each
\* field that was never set; StageReport::new(d) has every optional field None.
C19_SettersAreIndependent ==
    mode = "builder" =>
        /\ IsSome(report_builder) => Unwrap(report_builder).report = ReportOfChain
        /\ IsSome(built) => Unwrap(built) = ReportOfChain

\* A report was built from a chain that set nodes twice and edges once and
\* left the ranker's fields alone.
C19_Witness ==
    /\ mode = "builder"
    /\ IsSome(built)
    /\ chain.calls = <<<<"nodes", 0>>, <<"edges", 12>>, <<"nodes", 7>>>>
    /\ Unwrap(built).nodes = Some(7)
    /\ Unwrap(built).edges = Some(12)
    /\ Unwrap(built).iterations = None
    /\ Unwrap(built).converged = None
    /\ Unwrap(built).residual = None

\* The duration is a whole number of microseconds below 2^64.
WholeMicros(d) == d.nanos % 1000 = 0 /\ FitsU64(as_micros(d))

RECURSIVE ExactSum(_, _)
\* The sum of the duration_us of reports i.., computed at 128 bits, where no
\* sum of the reports a caller can record overflows.
ExactSum(rs, i) ==
    IF i > Len(rs) THEN UIntOf(0, U128_BITS)
    ELSE AddWidth(Widen(StageReport_duration_us(rs[i][2])), ExactSum(rs, i + 1)).value

\* C20: total_duration() is the sum of duration_us over all recorded reports
\* (zero when there are none) and is reached without overflow or wrap-around
\* for any sequence of recorded reports; every recorded report whose duration
\* is a whole number of microseconds below 2^64 gives that duration back.
C20_TotalDurationIsSum ==
    mode = "observer" =>
        /\ \A i \in 1..Len(measured) :
             WholeMicros(measured[i]) => StageReport_duration(reports[i][2]) = measured[i]
        /\ IsSome(returned) =>
             /\ Unwrap(returned) # Panic
             /\ as_micros(Unwrap(returned)) = ExactSum(reports, 1)

====
